---------------------------- MODULE Spec2Model ----------------------------
(* A model of trees.py: the Tree class (a label and a reference to a list  *)
(* object holding the branches) and the five recursive functions           *)
(* max_path_sum, find_path, prune_small, label_squarer and preorder.       *)
(*                                                                         *)
(* Objects live in a store: Tree instances are node ids, list objects are  *)
(* list ids.  `branches[t]` is the list object t.branches refers to and    *)
(* `heap[l]` is the content of list object l, so two instances aliasing    *)
(* one list object is expressible.                                         *)
EXTENDS Integers, Sequences, FiniteSets, TLC

VARIABLES
    label,      \* node id -> t.label
    branches,   \* node id -> id of the list object t.branches refers to
    heap,       \* list id -> sequence of node ids (the list's content)
    arg,        \* node id -> id of the list object handed to Tree.__init__
    callerLists,\* ids of the list objects the caller still holds
    call,       \* the call in progress or completed: [op, t, x, n]
    result,     \* the value the completed call returned
    stack,      \* prune_small's call stack: frames [t, pc, i], top first
    pre,        \* the store when the call was made
    phase       \* "idle" | "running" | "done" | "build"

vars == <<label, branches, heap, arg, callerLists, call, result, stack, pre, phase>>

----------------------------------------------------------------------------
(* Bounds *)

MaxNodes == 3

MaxLabel == 1

MaxN == 2

MaxLists == 1

Labels == (0 - MaxLabel)..MaxLabel

\* One value past every generated label stands for a label no node carries.
Targets == Labels \cup {MaxLabel + 1}

Limits == 0..MaxN

\* The list object created once for the default argument `branches=[]`.
DefaultList == 0

----------------------------------------------------------------------------
(* The store and the values functions return *)

Store == [label |-> label, branches |-> branches, heap |-> heap]

\* t.branches, read through the reference
Kids(S, t) == S.heap[S.branches[t]]

None == [kind |-> "None", val |-> <<>>]

ListVal(s) == [kind |-> "list", val |-> s]

IntVal(v) == [kind |-> "int", val |-> v]

----------------------------------------------------------------------------
(* Tree *)

is_leaf(S, t) == Len(Kids(S, t)) = 0

----------------------------------------------------------------------------
(* max_path_sum *)

MinOf(vals) == CHOOSE m \in vals : \A v \in vals : m <= v

\* max(...) over the generator's values
MaxOf(vals) == CHOOSE m \in vals : \A v \in vals : v <= m

DropLabel(l, m) == m

\* t.label + max(...)
AddLabel(l, m) == l + m

RECURSIVE max_path_sum(_, _)
max_path_sum(S, t) ==
    IF is_leaf(S, t)
    THEN S.label[t]
    ELSE AddLabel(S.label[t],
                  MaxOf({max_path_sum(S, Kids(S, t)[i]) : i \in 1..Len(Kids(S, t))}))

----------------------------------------------------------------------------
(* find_path *)

TruthyLong(path) == path.kind = "list" /\ Len(path.val) > 1

TruthyAlways(path) == TRUE

\* `if path:` -- None and the empty list are falsy
Truthy(path) == path.kind = "list" /\ Len(path.val) > 0

RECURSIVE find_path(_, _, _)
RECURSIVE find_path_loop(_, _, _, _)
\* the for loop of find_path from its i-th branch on; falling off the end
\* returns None
find_path_loop(S, t, x, i) ==
    IF i > Len(Kids(S, t))
    THEN None
    ELSE LET path == find_path(S, Kids(S, t)[i], x)
         IN  IF Truthy(path)
             THEN ListVal(<<S.label[t]>> \o path.val)
             ELSE find_path_loop(S, t, x, i + 1)

find_path(S, t, x) ==
    IF S.label[t] = x
    THEN ListVal(<<S.label[t]>>)
    ELSE find_path_loop(S, t, x, 1)

----------------------------------------------------------------------------
(* preorder *)

ExtendFront(res, more) == more \o res

\* result.extend(more)
Extend(res, more) == res \o more

RECURSIVE preorder(_, _)
RECURSIVE preorder_loop(_, _, _, _)
preorder_loop(S, t, i, res) ==
    IF i > Len(Kids(S, t))
    THEN res
    ELSE preorder_loop(S, t, i + 1, Extend(res, preorder(S, Kids(S, t)[i])))

preorder(S, t) == preorder_loop(S, t, 1, <<S.label[t]>>)

----------------------------------------------------------------------------
(* label_squarer *)

Double(v) == v * 2

\* t.label**2
Square(v) == v * v

RECURSIVE label_squarer(_, _)
RECURSIVE label_squarer_loop(_, _, _)
label_squarer_loop(S, t, i) ==
    IF i > Len(Kids(S, t))
    THEN S
    ELSE label_squarer_loop(label_squarer(S, Kids(S, t)[i]), t, i + 1)

\* the store after label_squarer(t)
label_squarer(S, t) ==
    label_squarer_loop([S EXCEPT !.label[t] = Square(@)], t, 1)

----------------------------------------------------------------------------
(* prune_small, one step per loop iteration and per call or return *)

WhileCondLate(len, n) == len > n + 1

\* while len(t.branches) > n
WhileCond(len, n) == len > n

MaxLabelOf(S, t) == MaxOf({S.label[Kids(S, t)[i]] : i \in 1..Len(Kids(S, t))})

MinLabelOf(S, t) == MinOf({S.label[Kids(S, t)[i]] : i \in 1..Len(Kids(S, t))})

LargestLast(S, t) ==
    LET k == Kids(S, t)
        i == CHOOSE i \in 1..Len(k) :
                 /\ S.label[k[i]] = MaxLabelOf(S, t)
                 /\ \A j \in (i + 1)..Len(k) : S.label[k[j]] < MaxLabelOf(S, t)
    IN  k[i]

Smallest(S, t) ==
    LET k == Kids(S, t)
        i == CHOOSE i \in 1..Len(k) :
                 /\ S.label[k[i]] = MinLabelOf(S, t)
                 /\ \A j \in 1..(i - 1) : S.label[k[j]] > MinLabelOf(S, t)
    IN  k[i]

\* max(t.branches, key=lambda b: b.label): the first branch, in list order,
\* that carries the maximum label
Largest(S, t) ==
    LET k == Kids(S, t)
        i == CHOOSE i \in 1..Len(k) :
                 /\ S.label[k[i]] = MaxLabelOf(S, t)
                 /\ \A j \in 1..(i - 1) : S.label[k[j]] < MaxLabelOf(S, t)
    IN  k[i]

\* list.remove(v): drops the first element equal to v; Tree defines no
\* __eq__, so equal means the same instance
Remove(s, v) ==
    LET i == CHOOSE i \in 1..Len(s) : s[i] = v /\ \A j \in 1..(i - 1) : s[j] # v
    IN  [j \in 1..(Len(s) - 1) |-> IF j < i THEN s[j] ELSE s[j + 1]]

Frame(t) == [t |-> t, pc |-> "while", i |-> 1]

Top == Head(stack)

\* nodes that are in no node's branches
Roots(S) ==
    {t \in DOMAIN S.label :
        \A u \in DOMAIN S.label : \A i \in 1..Len(Kids(S, u)) : Kids(S, u)[i] # t}

\* prune_small(t, n) is called
PruneCall(t, n) ==
    /\ phase \in {"idle", "build"}
    /\ call' = [op |-> "prune_small", t |-> t, x |-> 0, n |-> n]
    /\ stack' = <<Frame(t)>>
    /\ pre' = Store
    /\ phase' = "running"
    /\ UNCHANGED <<label, branches, heap, arg, callerLists, result>>

\* one iteration of the while loop: the largest branch is removed
PruneRemove ==
    /\ phase = "running"
    /\ Top.pc = "while"
    /\ WhileCond(Len(Kids(Store, Top.t)), call.n)
    /\ heap' = [heap EXCEPT ![branches[Top.t]] = Remove(@, Largest(Store, Top.t))]
    /\ UNCHANGED <<label, branches, arg, callerLists, call, result, stack, pre, phase>>

\* the while condition is false: the for loop begins
PruneLoopExit ==
    /\ phase = "running"
    /\ Top.pc = "while"
    /\ ~WhileCond(Len(Kids(Store, Top.t)), call.n)
    /\ stack' = <<[Top EXCEPT !.pc = "for"]>> \o Tail(stack)
    /\ UNCHANGED <<label, branches, heap, arg, callerLists, call, result, pre, phase>>

\* for b in t.branches: prune_small(b, n)
PruneRecurse ==
    /\ phase = "running"
    /\ Top.pc = "for"
    /\ Top.i <= Len(Kids(Store, Top.t))
    /\ stack' = <<Frame(Kids(Store, Top.t)[Top.i]), [Top EXCEPT !.i = @ + 1]>>
                  \o Tail(stack)
    /\ UNCHANGED <<label, branches, heap, arg, callerLists, call, result, pre, phase>>

\* the for loop is exhausted: the call returns (None)
PruneReturn ==
    /\ phase = "running"
    /\ Top.pc = "for"
    /\ Top.i > Len(Kids(Store, Top.t))
    /\ stack' = Tail(stack)
    /\ phase' = IF Len(stack) = 1 THEN "done" ELSE "running"
    /\ result' = IF Len(stack) = 1 THEN None ELSE result
    /\ UNCHANGED <<label, branches, heap, arg, callerLists, call, pre>>

----------------------------------------------------------------------------
(* The calls that run as one step *)

CallMaxPathSum(t) ==
    /\ phase = "idle"
    /\ call' = [op |-> "max_path_sum", t |-> t, x |-> 0, n |-> 0]
    /\ result' = IntVal(max_path_sum(Store, t))
    /\ pre' = Store
    /\ phase' = "done"
    /\ UNCHANGED <<label, branches, heap, arg, callerLists, stack>>

CallFindPath(t, x) ==
    /\ phase = "idle"
    /\ call' = [op |-> "find_path", t |-> t, x |-> x, n |-> 0]
    /\ result' = find_path(Store, t, x)
    /\ pre' = Store
    /\ phase' = "done"
    /\ UNCHANGED <<label, branches, heap, arg, callerLists, stack>>

CallPreorder(t) ==
    /\ phase = "idle"
    /\ call' = [op |-> "preorder", t |-> t, x |-> 0, n |-> 0]
    /\ result' = ListVal(preorder(Store, t))
    /\ pre' = Store
    /\ phase' = "done"
    /\ UNCHANGED <<label, branches, heap, arg, callerLists, stack>>

CallLabelSquarer(t) ==
    /\ phase = "idle"
    /\ call' = [op |-> "label_squarer", t |-> t, x |-> 0, n |-> 0]
    /\ label' = label_squarer(Store, t).label
    /\ result' = None
    /\ pre' = Store
    /\ phase' = "done"
    /\ UNCHANGED <<branches, heap, arg, callerLists, stack>>

----------------------------------------------------------------------------
(* Initial trees: every tree of at most MaxNodes nodes, as the constructor *)
(* builds it (each node with a list object of its own), and the tree of    *)
(* the documented scenario.                                                *)

RECURSIVE SortedSeq(_)
SortedSeq(set) ==
    IF set = {}
    THEN <<>>
    ELSE LET m == CHOOSE m \in set : \A v \in set : m <= v
         IN  <<m>> \o SortedSeq(set \ {m})

\* parent maps of the trees on nodes 1..k with root 1
Shapes(k) == {p \in [2..k -> 1..k] : \A i \in 2..k : p[i] < i}

ShapeHeap(k, p) ==
    [l \in 0..k |-> IF l = DefaultList
                    THEN <<>>
                    ELSE SortedSeq({j \in 2..k : p[j] = l})]

\* a list object the caller built for one constructor call and dropped
Dropped == 0 - 1

\* Tree(1, [Tree(2, [Tree(4), Tree(5)]), Tree(3)])
ScenarioLabel == <<1, 2, 4, 5, 3>>

ScenarioHeap == [l \in 0..5 |-> IF l = 1 THEN <<2, 5>> ELSE IF l = 2 THEN <<3, 4>> ELSE <<>>]

IsScenario(S) == S.label = ScenarioLabel /\ S.heap = ScenarioHeap

NoCall == [op |-> "none", t |-> 0, x |-> 0, n |-> 0]

Init ==
    /\ \/ \E k \in 1..MaxNodes : \E p \in Shapes(k) :
            /\ label \in [1..k -> Labels]
            /\ heap = ShapeHeap(k, p)
       \/ /\ label = ScenarioLabel
          /\ heap = ScenarioHeap
    /\ branches = [t \in DOMAIN label |-> t]
    /\ arg = [t \in DOMAIN label |-> IF heap[t] = <<>> THEN DefaultList ELSE Dropped]
    /\ callerLists = {}
    /\ call = NoCall
    /\ result = None
    /\ stack = <<>>
    /\ pre = Store
    /\ phase = "idle"

----------------------------------------------------------------------------
(* Construction: the caller builds list objects, hands them (or nothing)   *)
(* to Tree.__init__, and may change its own lists afterwards.              *)

SameList(a, fresh) == a

\* self.branches = list(branches): the instance refers to a new list object
BranchesRef(a, fresh) == fresh

NewList == Cardinality(DOMAIN heap)

NewNode == Cardinality(DOMAIN label) + 1

\* Tree(l) or Tree(l, a): a is the default list object or a caller's list.
\* Every element of a is a Tree, so the isinstance assertions pass.
TreeInit(l, a) ==
    /\ phase = "build"
    /\ NewNode <= MaxNodes
    /\ label' = [t \in DOMAIN label \cup {NewNode} |->
                    IF t = NewNode THEN l ELSE label[t]]
    /\ heap' = [k \in DOMAIN heap \cup {NewList} |->
                    IF k = NewList THEN heap[a] ELSE heap[k]]
    /\ branches' = [t \in DOMAIN label \cup {NewNode} |->
                    IF t = NewNode THEN BranchesRef(a, NewList) ELSE branches[t]]
    /\ arg' = [t \in DOMAIN label \cup {NewNode} |->
                    IF t = NewNode THEN a ELSE arg[t]]
    /\ UNCHANGED <<callerLists, call, result, stack, pre, phase>>

\* the caller evaluates a list display of existing instances
CallerNewList(s) ==
    /\ phase = "build"
    /\ Cardinality(callerLists) < MaxLists
    /\ heap' = [k \in DOMAIN heap \cup {NewList} |->
                    IF k = NewList THEN s ELSE heap[k]]
    /\ callerLists' = callerLists \cup {NewList}
    /\ UNCHANGED <<label, branches, arg, call, result, stack, pre, phase>>

\* the caller pops the last element of a list it holds
CallerPop(k) ==
    /\ phase = "build"
    /\ Len(heap[k]) > 0
    /\ heap' = [heap EXCEPT ![k] = SubSeq(@, 1, Len(@) - 1)]
    /\ UNCHANGED <<label, branches, arg, callerLists, call, result, stack, pre, phase>>

InitOwn ==
    /\ label = <<>>
    /\ branches = <<>>
    /\ heap = [k \in {DefaultList} |-> <<>>]
    /\ arg = <<>>
    /\ callerLists = {}
    /\ call = NoCall
    /\ result = None
    /\ stack = <<>>
    /\ pre = Store
    /\ phase = "build"

\* the labels the constructed instances carry
OwnLabels == {0, MaxLabel}

\* the limits prune_small is called with on the constructed instances
OwnLimits == {0, 1}

NextOwn ==
    \/ \E l \in OwnLabels : \E a \in {DefaultList} \cup callerLists : TreeInit(l, a)
    \/ \E c \in (SUBSET DOMAIN label) \ {{}} : CallerNewList(SortedSeq(c))
    \/ \E k \in callerLists : CallerPop(k)
    \/ \E t \in DOMAIN label : \E n \in OwnLimits : PruneCall(t, n)
    \/ PruneRemove
    \/ PruneLoopExit
    \/ PruneRecurse
    \/ PruneReturn

SpecOwn == InitOwn /\ [][NextOwn]_vars

Next ==
    \/ \E t \in Roots(Store) : CallMaxPathSum(t)
    \/ \E t \in Roots(Store) : \E x \in Targets : CallFindPath(t, x)
    \/ \E t \in Roots(Store) : CallPreorder(t)
    \/ \E t \in Roots(Store) : CallLabelSquarer(t)
    \/ \E t \in Roots(Store) : \E n \in Limits : PruneCall(t, n)
    \/ PruneRemove
    \/ PruneLoopExit
    \/ PruneRecurse
    \/ PruneReturn

Spec == Init /\ [][Next]_vars

\* prune_small is an ordinary sequential call: once made, it keeps running
FairSpec == Spec /\ WF_vars(PruneRemove \/ PruneLoopExit \/ PruneRecurse \/ PruneReturn)

----------------------------------------------------------------------------
(* What the properties speak of, defined apart from the functions above *)

Done(op) == phase = "done" /\ call.op = op

Range(s) == {s[i] : i \in 1..Len(s)}

\* the nodes of the tree rooted at t
RECURSIVE Reach(_, _)
Reach(S, t) == {t} \cup UNION {Reach(S, b) : b \in Range(Kids(S, t))}

\* the paths, as node sequences, from t down to a leaf
RECURSIVE LeafPaths(_, _)
LeafPaths(S, t) ==
    IF Kids(S, t) = <<>>
    THEN {<<t>>}
    ELSE UNION {{<<t>> \o p : p \in LeafPaths(S, b)} : b \in Range(Kids(S, t))}

LabelsOf(S, p) == [i \in 1..Len(p) |-> S.label[p[i]]]

RECURSIVE Sum(_)
Sum(s) == IF s = <<>> THEN 0 ELSE Head(s) + Sum(Tail(s))

PathSums(S, t) == {Sum(LabelsOf(S, p)) : p \in LeafPaths(S, t)}

RECURSIVE Concat(_)
Concat(ss) == IF ss = <<>> THEN <<>> ELSE Head(ss) \o Concat(Tail(ss))

\* the nodes of t's tree, root before children, children in listed order
RECURSIVE PreNodes(_, _)
PreNodes(S, t) ==
    <<t>> \o Concat([i \in 1..Len(Kids(S, t)) |-> PreNodes(S, Kids(S, t)[i])])

FirstMatch(S, t, x) ==
    LET pn == PreNodes(S, t)
        i  == CHOOSE i \in 1..Len(pn) :
                  S.label[pn[i]] = x /\ \A j \in 1..(i - 1) : S.label[pn[j]] # x
    IN  pn[i]

ParentOf(S, u) == CHOOSE q \in DOMAIN S.label : u \in Range(Kids(S, q))

\* the chain of nodes from t down to its descendant u
RECURSIVE Chain(_, _, _)
Chain(S, t, u) == IF u = t THEN <<t>> ELSE Chain(S, t, ParentOf(S, u)) \o <<u>>

Present(S, t, x) == \E u \in Reach(S, t) : S.label[u] = x

\* s is r with some elements left out, the others in their order
IsSubSeq(s, r) ==
    \E f \in [1..Len(s) -> 1..Len(r)] :
        /\ \A i \in 1..Len(s) : r[f[i]] = s[i]
        /\ \A i \in 1..Len(s) : \A j \in 1..Len(s) : i < j => f[i] < f[j]

Unmutated == label = pre.label /\ branches = pre.branches /\ heap = pre.heap

----------------------------------------------------------------------------
(* C1: max_path_sum(t) is the maximum, over the paths from t down to a     *)
(* leaf, of the sum of the labels on the path; for a leaf it is t.label.   *)
C1_MaxPathSum ==
    Done("max_path_sum") =>
        /\ result.kind = "int"
        /\ result.val \in PathSums(pre, call.t)
        /\ \A v \in PathSums(pre, call.t) : v <= result.val
        /\ Kids(pre, call.t) = <<>> => result.val = pre.label[call.t]

\* a call on a tree whose paths have different sums, the first not the largest
C1_Witness ==
    /\ Done("max_path_sum")
    /\ Cardinality(PathSums(pre, call.t)) >= 2
    /\ result.val > pre.label[call.t] + max_path_sum(pre, Kids(pre, call.t)[1])

(* C2: when some node carries x, find_path(t, x) is the sequence of labels *)
(* on the chain from t down to the first node in preorder carrying x: it   *)
(* begins with t.label and ends with x.                                    *)
C2_FindPathPresent ==
    (Done("find_path") /\ Present(pre, call.t, call.x)) =>
        /\ result = ListVal(LabelsOf(pre, Chain(pre, call.t, FirstMatch(pre, call.t, call.x))))
        /\ Head(result.val) = pre.label[call.t]
        /\ result.val[Len(result.val)] = call.x

\* x is carried by two nodes and the first in preorder lies below the root
C2_Witness ==
    /\ Done("find_path")
    /\ Cardinality({u \in Reach(pre, call.t) : pre.label[u] = call.x}) >= 2
    /\ Len(result.val) >= 2

(* C3: prune_small(t, n) with n >= 0 terminates, and afterwards every node *)
(* reachable from t has at most n branches, each of them one of the        *)
(* branches that node had before; no node is created.                      *)
C3_PruneBound ==
    /\ [](Done("prune_small") =>
            /\ DOMAIN label = DOMAIN pre.label
            /\ \A u \in Reach(Store, call.t) :
                  /\ Len(Kids(Store, u)) <= call.n
                  /\ Range(Kids(Store, u)) \subseteq Range(Kids(pre, u)))
    /\ (phase = "running") ~> (phase = "done")

\* a finished call that had to remove branches and kept some
C3_Witness ==
    /\ Done("prune_small")
    /\ \E u \in Reach(Store, call.t) : Len(Kids(pre, u)) > call.n
    /\ Cardinality(Reach(Store, call.t)) >= 2

(* C4: preorder(t) is [t.label] followed by preorder(b) for each branch b  *)
(* in order; every node is listed once, so its length is 1 plus the        *)
(* lengths of the branches' listings; nothing is modified.                 *)
C4_Preorder ==
    Done("preorder") =>
        LET k == Kids(pre, call.t)
            sub == [i \in 1..Len(k) |-> preorder(pre, k[i])]
        IN  /\ result = ListVal(<<pre.label[call.t]>> \o Concat(sub))
            /\ result.val = LabelsOf(pre, PreNodes(pre, call.t))
            /\ Len(result.val) = 1 + Sum([i \in 1..Len(k) |-> Len(sub[i])])
            /\ Len(result.val) = Cardinality(Reach(pre, call.t))
            /\ Unmutated

\* a listing of a tree with a grandchild or two branches, with distinct labels
C4_Witness ==
    /\ Done("preorder")
    /\ Len(result.val) >= 3
    /\ result.val[1] # result.val[2]
    /\ result.val[2] # result.val[3]

(* C5: after label_squarer(t) every node's label is the square of the      *)
(* label it had before, and every branches sequence is unchanged.          *)
C5_LabelSquarer ==
    Done("label_squarer") =>
        /\ \A u \in Reach(pre, call.t) : label[u] = pre.label[u] * pre.label[u]
        /\ branches = pre.branches
        /\ heap = pre.heap

\* a tree of three nodes with a negative label has been squared
C5_Witness ==
    /\ Done("label_squarer")
    /\ Cardinality(Reach(pre, call.t)) >= 3
    /\ \E u \in Reach(pre, call.t) : pre.label[u] < 0 /\ label[u] > 0

(* C6: when no node carries x, find_path(t, x) returns None, not a         *)
(* sequence, and modifies nothing.                                         *)
C6_FindPathAbsent ==
    (Done("find_path") /\ ~Present(pre, call.t, call.x)) =>
        /\ result = None
        /\ Unmutated

\* a search through a tree with branches for a label no node carries
C6_Witness ==
    /\ Done("find_path")
    /\ ~Present(pre, call.t, call.x)
    /\ Cardinality(Reach(pre, call.t)) >= 3

(* C7, as stated: max_path_sum(t) >= t.label for every tree.               *)
C7_AtLeastRootLabel ==
    Done("max_path_sum") => result.val >= pre.label[call.t]

(* C7, amended: max_path_sum(t) >= t.label for every tree in which no node *)
(* below the root has a negative label.                                    *)
C7_AtLeastRootLabelNonNeg ==
    (/\ Done("max_path_sum")
     /\ \A u \in Reach(pre, call.t) \ {call.t} : pre.label[u] >= 0)
        => result.val >= pre.label[call.t]

\* a tree with branches, nothing negative below the root
C7_Witness ==
    /\ Done("max_path_sum")
    /\ Kids(pre, call.t) # <<>>
    /\ \A u \in Reach(pre, call.t) \ {call.t} : pre.label[u] >= 0
    /\ result.val > pre.label[call.t]

\* the tree after the call: the root's only branch is labelled a, and that
\* node's only branch is a leaf labelled b
PrunedTo(a, b) ==
    /\ Len(Kids(Store, call.t)) = 1
    /\ LET c == Kids(Store, call.t)[1]
       IN  /\ label[c] = a
           /\ Len(Kids(Store, c)) = 1
           /\ label[Kids(Store, c)[1]] = b
           /\ Kids(Store, Kids(Store, c)[1]) = <<>>

ScenarioPruned == Done("prune_small") /\ IsScenario(pre) /\ call.n = 1

(* C8, as stated: from Tree(1, [Tree(2, [Tree(4), Tree(5)]), Tree(3)]),    *)
(* prune_small(t, 1) leaves t.branches == [Tree(2, [Tree(5)])].            *)
C8_ScenarioKeeps5 == ScenarioPruned => PrunedTo(2, 5)

(* C8, amended: from the same tree, prune_small(t, 1) leaves the root with *)
(* exactly one branch, the node labelled 2, and that node with exactly one *)
(* branch, the leaf labelled 4: t.branches == [Tree(2, [Tree(4)])].        *)
C8_ScenarioKeeps4 == ScenarioPruned => PrunedTo(2, 4)

C8_Witness == ScenarioPruned /\ label[call.t] = 1

(* C9: every Tree owns its branches sequence: a step changes the branches  *)
(* of no instance but the one prune_small is removing from, whether the    *)
(* instances were built without children or from the same list of the      *)
(* caller, and whether the step is a removal or a change of that list.     *)
C9_OwnBranches ==
    [][\A u \in DOMAIN label :
          \/ heap'[branches'[u]] = heap[branches[u]]
          \/ phase = "running" /\ u = Top.t]_vars

\* two instances built from one list of the caller; one has been pruned
\* and the other still holds what the caller's list held
C9_Witness ==
    /\ phase = "done"
    /\ \E u \in DOMAIN label : \E v \in DOMAIN label :
          /\ u # v
          /\ arg[u] = arg[v]
          /\ arg[u] \in callerLists
          /\ call.t = u
          /\ Len(Kids(Store, u)) < Len(Kids(Store, v))
          /\ Kids(Store, v) = heap[arg[v]]

\* the step removes one branch of the node on top of the stack: the first,
\* in list order, among those carrying the maximum label
RemovesFirstLargest ==
    LET k == Kids(Store, Top.t)
    IN  \E i \in 1..Len(k) :
           /\ \A j \in 1..Len(k) : label[k[j]] <= label[k[i]]
           /\ \A j \in 1..(i - 1) : label[k[j]] < label[k[i]]
           /\ heap' = [heap EXCEPT ![branches[Top.t]] =
                          SubSeq(k, 1, i - 1) \o SubSeq(k, i + 1, Len(k))]

(* C10: in prune_small(t, n) each loop iteration removes one branch, the   *)
(* first in order among those with the maximum label; a visited node with  *)
(* k > n branches loses exactly k - n of them; the retained branches keep  *)
(* their order; every removed branch's label is >= every retained          *)
(* sibling's; and the subtrees of removed branches are left unmodified.    *)
C10_PruneOrder ==
    /\ [][heap' # heap => phase = "running" /\ RemovesFirstLargest]_vars
    /\ [](phase \in {"running", "done"} /\ call.op = "prune_small" =>
            \A u \in DOMAIN label \ Reach(Store, call.t) :
                Kids(Store, u) = Kids(pre, u))
    /\ [](Done("prune_small") =>
            \A u \in Reach(Store, call.t) :
                /\ Len(Kids(pre, u)) > call.n => Len(Kids(Store, u)) = call.n
                /\ Len(Kids(pre, u)) <= call.n => Kids(Store, u) = Kids(pre, u)
                /\ IsSubSeq(Kids(Store, u), Kids(pre, u))
                /\ \A r \in Range(Kids(pre, u)) \ Range(Kids(Store, u)) :
                      \A k \in Range(Kids(Store, u)) : label[r] >= label[k])

\* a node's first two branches tied for the maximum: the first was removed
\* and the second kept
C10_Witness ==
    /\ Done("prune_small")
    /\ \E u \in Reach(Store, call.t) :
          /\ Len(Kids(pre, u)) >= 2
          /\ label[Kids(pre, u)[1]] = label[Kids(pre, u)[2]]
          /\ Kids(Store, u) = <<Kids(pre, u)[2]>>

============================================================================
